---- MODULE Spec2Model ----
(***************************************************************************)
(* Model of scripts/log_downloader_mcp.py: the stdio MCP server loop, the  *)
(* request dispatcher and the download_daily_logs orchestration, with the  *)
(* remote Gateway and the artifact download as nondeterministic replies.   *)
(*                                                                         *)
(* Python str values are sequences of one-character strings.  Python dicts *)
(* are functions whose DOMAIN is the set of keys that are present.  Where   *)
(* the code expects a str, None is the one-element sequence <<"None">>,    *)
(* which no str can equal.  Where it expects a dict or a list, a member    *)
(* that is null is left out of its dict and named in the set `null` of the *)
(* line or of the Gateway reply that carries the dict, so that no dict and *)
(* no list of the input can be taken for None.                             *)
(***************************************************************************)
EXTENDS Integers, Sequences, FiniteSets, TLC

VARIABLES
    pc,           \* position of the single thread of run_stdio_server
    now,          \* local calendar date of the process clock, <<y, m, d>>
    nread,        \* lines consumed from stdin so far
    nwritten,     \* response lines written (and flushed) to stdout so far
    nkinds,       \* log kinds requested by the lines consumed so far
    eof,          \* readline has returned the empty string
    request,      \* the line being served, as read
    response,     \* the response object handle_mcp_request returned for it
    wrote,        \* the response objects written to stdout for that line
    base_path,    \* download_daily_logs: allowed_roots[0].rstrip("/\\")
    date_str,     \* download_daily_logs: the formatted target date
    log_types,    \* download_daily_logs: the kinds being iterated
    i,            \* download_daily_logs: 1-based position of the loop
    path,         \* download_daily_logs: remote path of the current kind
    link_info,    \* download_daily_logs: reply of get_download_link
    download_url, \* download_daily_logs: the rewritten download URL
    results,      \* download_daily_logs: the result list
    trace,        \* remote calls, their outcomes and file opens for that line
    files,        \* local disk: file path -> content
    dirs,         \* local disk: the directories created, as component lists
    mcp_host      \* LogDownloaderMCP._mcp_host

vars == <<pc, now, nread, nwritten, nkinds, eof, request, response, wrote,
          base_path, date_str, log_types, i, path, link_info, download_url,
          results, trace, files, dirs, mcp_host>>

-----------------------------------------------------------------------------
(* Bounds of the model                                                      *)

\* lines the client sends before it closes stdin
MaxLines == 2
\* log kinds in {client, backend} requested over the whole input
MaxKinds == 2

-----------------------------------------------------------------------------
(* Python values                                                            *)

None == <<"None">>

\* the members of line or reply x that are null where the code expects a
\* dict or a list
Nulls(x) == IF "null" \in DOMAIN x THEN x.null ELSE {}

\* dict.get(key, default)
Get(d, k, default) == IF k \in DOMAIN d THEN d[k] ELSE default

\* a dict entry that may be absent
Opt(k, present, v) == IF present THEN (k :> v) ELSE <<>>

\* str.endswith
EndsWith(s, suf) ==
    /\ Len(s) >= Len(suf)
    /\ SubSeq(s, Len(s) - Len(suf) + 1, Len(s)) = suf

\* str.startswith at an offset: s[k:].startswith(sub), k 1-based
MatchAt(s, k, sub) ==
    /\ k + Len(sub) - 1 <= Len(s)
    /\ SubSeq(s, k, k + Len(sub) - 1) = sub

\* `sub in s`
Contains(s, sub) == \E k \in 1..(Len(s) + 1) : MatchAt(s, k, sub)

\* str.find(sub, start): 1-based index of the first match at or after start,
\* 0 when there is none
RECURSIVE Find(_, _, _)
Find(s, sub, start) ==
    IF start + Len(sub) - 1 > Len(s) THEN 0
    ELSE IF MatchAt(s, start, sub) THEN start
    ELSE Find(s, sub, start + 1)

\* str.replace(old, new): every non-overlapping match, left to right
RECURSIVE Replace(_, _, _)
Replace(s, old, new) ==
    IF s = <<>> THEN <<>>
    ELSE IF MatchAt(s, 1, old)
         THEN new \o Replace(SubSeq(s, Len(old) + 1, Len(s)), old, new)
         ELSE <<Head(s)>> \o Replace(Tail(s), old, new)

\* str.rstrip(chars)
RECURSIVE RStrip(_, _)
RStrip(s, chars) ==
    IF s # <<>> /\ s[Len(s)] \in chars
    THEN RStrip(SubSeq(s, 1, Len(s) - 1), chars)
    ELSE s

\* the characters of Latin-1, which are those a str of the model can hold,
\* that str.lower changes, and what it changes them to
UpperCase == <<"A","B","C","D","E","F","G","H","I","J","K","L","M",
               "N","O","P","Q","R","S","T","U","V","W","X","Y","Z",
               "À","Á","Â","Ã","Ä","Å","Æ","Ç","È","É","Ê","Ë","Ì",
               "Í","Î","Ï","Ð","Ñ","Ò","Ó","Ô","Õ","Ö","Ø","Ù","Ú",
               "Û","Ü","Ý","Þ">>
LowerCase == <<"a","b","c","d","e","f","g","h","i","j","k","l","m",
               "n","o","p","q","r","s","t","u","v","w","x","y","z",
               "à","á","â","ã","ä","å","æ","ç","è","é","ê","ë","ì",
               "í","î","ï","ð","ñ","ò","ó","ô","õ","ö","ø","ù","ú",
               "û","ü","ý","þ">>
Cased == {UpperCase[k] : k \in 1..Len(UpperCase)}
LowerTable ==
    [c \in Cased |-> LowerCase[CHOOSE k \in 1..Len(UpperCase) : UpperCase[k] = c]]

LowerChar(c) == IF c \in Cased THEN LowerTable[c] ELSE c

\* str.lower
Lower(s) == [k \in 1..Len(s) |-> LowerChar(s[k])]

Digits == <<"0","1","2","3","4","5","6","7","8","9">>

\* "%02d" and "%04d"
Pad2(n) == <<Digits[((n \div 10) % 10) + 1], Digits[(n % 10) + 1]>>
Pad4(n) == Pad2(n \div 100) \o Pad2(n % 100)

-----------------------------------------------------------------------------
(* Paths                                                                    *)

BSlash == "\\"
Slash == "/"
NtSeps == {BSlash, Slash}

\* ntpath.splitdrive: <<drive, rest>>; normp is p with / replaced by \,
\* index and index2 are the positions of the third and fourth separator of a
\* UNC path (0 when absent)
UncPrefix == <<BSlash, BSlash, "?", BSlash, "u", "n", "c", BSlash>>
UncStart(normp) ==
    IF Len(normp) >= 8 /\ Lower(SubSeq(normp, 1, 8)) = UncPrefix THEN 9 ELSE 3

NtSplitUncAt(p, index2) ==
    IF index2 = 0 THEN <<p, <<>>>>
    ELSE <<SubSeq(p, 1, index2 - 1), SubSeq(p, index2, Len(p))>>

NtSplitUnc(p, normp, index) ==
    IF index = 0 THEN <<p, <<>>>>
    ELSE NtSplitUncAt(p, Find(normp, <<BSlash>>, index + 1))

NtSplitNorm(p, normp) ==
    IF Len(p) >= 2 /\ SubSeq(normp, 1, 2) = <<BSlash, BSlash>>
    THEN NtSplitUnc(p, normp, Find(normp, <<BSlash>>, UncStart(normp)))
    ELSE IF Len(p) >= 2 /\ normp[2] = ":"
    THEN <<SubSeq(p, 1, 2), SubSeq(p, 3, Len(p))>>
    ELSE <<<<>>, p>>

NtSplitDrive(p) == NtSplitNorm(p, Replace(p, <<Slash>>, <<BSlash>>))

\* one round of the loop of ntpath.join: acc = <<result_drive, result_path>>,
\* pd = splitdrive(p)
NtJoinParts(acc, pd) ==
    LET p_drive == pd[1]
        p_path == pd[2]
        rel_drive == IF p_drive # <<>> /\ p_drive # acc[1] THEN p_drive ELSE acc[1]
        rel_path == IF acc[2] # <<>> /\ acc[2][Len(acc[2])] \notin NtSeps
                    THEN acc[2] \o <<BSlash>> ELSE acc[2]
    IN  IF p_path # <<>> /\ p_path[1] \in NtSeps
        THEN <<IF p_drive # <<>> \/ acc[1] = <<>> THEN p_drive ELSE acc[1], p_path>>
        ELSE IF p_drive # <<>> /\ p_drive # acc[1] /\ Lower(p_drive) # Lower(acc[1])
        THEN <<p_drive, p_path>>
        ELSE <<rel_drive, rel_path \o p_path>>

NtJoinStep(acc, p) == NtJoinParts(acc, NtSplitDrive(p))

RECURSIVE NtJoinLoop(_, _)
NtJoinLoop(acc, paths) ==
    IF paths = <<>> THEN acc
    ELSE NtJoinLoop(NtJoinStep(acc, Head(paths)), Tail(paths))

\* the end of ntpath.join: r = <<result_drive, result_path>>
NtJoinEnd(r) ==
    IF /\ r[2] # <<>> /\ r[2][1] \notin NtSeps
       /\ r[1] # <<>> /\ r[1][Len(r[1])] # ":"
    THEN r[1] \o <<BSlash>> \o r[2]
    ELSE r[1] \o r[2]

\* ntpath.join(first, *paths)
NtJoin(first, paths) == NtJoinEnd(NtJoinLoop(NtSplitDrive(first), paths))

\* os.path.join(a, b) on the host (POSIX rules)
OsJoin(a, b) ==
    IF b # <<>> /\ b[1] = Slash THEN b
    ELSE IF a = <<>> \/ a[Len(a)] = Slash THEN a \o b
    ELSE a \o <<Slash>> \o b

\* position of the last occurrence of character c in s, 0 when absent
RECURSIVE RFind(_, _)
RFind(s, c) ==
    IF s = <<>> THEN 0
    ELSE IF s[Len(s)] = c THEN Len(s)
    ELSE RFind(SubSeq(s, 1, Len(s) - 1), c)

\* os.path.basename
Basename(p) == SubSeq(p, RFind(p, Slash) + 1, Len(p))

\* length of the run of leading dots of a file name
RECURSIVE LeadingDots(_)
LeadingDots(s) ==
    IF s # <<>> /\ Head(s) = "." THEN 1 + LeadingDots(Tail(s)) ELSE 0

\* os.path.splitext(name)[0] for a name without directory part
SplitextRoot(name) ==
    LET dot == RFind(name, ".")
    IN  IF dot > LeadingDots(name) THEN SubSeq(name, 1, dot - 1) ELSE name

\* the components of a POSIX path, split at every "/"
RECURSIVE SplitSlash(_, _, _)
SplitSlash(s, start, acc) ==
    LET cuts == {k \in start..Len(s) : s[k] = Slash} IN
    IF cuts = {} THEN Append(acc, SubSeq(s, start, Len(s)))
    ELSE LET k == CHOOSE c \in cuts : \A c2 \in cuts : c <= c2
         IN  SplitSlash(s, k + 1, Append(acc, SubSeq(s, start, k - 1)))

\* os.path.normpath of an absolute path, as a list of components
RECURSIVE Resolve(_, _)
Resolve(cs, st) ==
    IF cs = <<>> THEN st
    ELSE IF Head(cs) = <<>> \/ Head(cs) = <<".">> THEN Resolve(Tail(cs), st)
    ELSE IF Head(cs) = <<".", ".">>
    THEN Resolve(Tail(cs), IF st = <<>> THEN st ELSE SubSeq(st, 1, Len(st) - 1))
    ELSE Resolve(Tail(cs), Append(st, Head(cs)))

\* the directories that exist on the host: the root and, as makedirs creates
\* the ancestors, every prefix of a created directory (as component lists)
Prefixes(st) == {SubSeq(st, 1, n) : n \in 0..Len(st)}
DirParts(ds) == {<<>>} \cup UNION {Prefixes(d) : d \in ds}

\* os.makedirs creates the missing ancestors first, each with mkdir on the
\* path as written: the directory named before a ".." component is created
\* before the kernel steps out of it. cs are the components still to walk,
\* st the directory reached
RECURSIVE MakeDirsFrom(_, _, _)
MakeDirsFrom(cs, st, ds) ==
    IF cs = <<>> THEN (IF st = <<>> THEN ds ELSE ds \cup {st})
    ELSE IF Head(cs) = <<>> \/ Head(cs) = <<".">>
    THEN MakeDirsFrom(Tail(cs), st, ds)
    ELSE IF Head(cs) = <<".", ".">>
    THEN IF st = <<>> THEN MakeDirsFrom(Tail(cs), st, ds)
         ELSE MakeDirsFrom(Tail(cs), SubSeq(st, 1, Len(st) - 1), ds \cup {st})
    ELSE MakeDirsFrom(Tail(cs), Append(st, Head(cs)), ds)

\* os.makedirs(p, exist_ok=True) and os.path.isdir(p), ds the directories
\* created so far
MakeDirs(p, ds) == MakeDirsFrom(SplitSlash(p, 1, <<>>), <<>>, ds)
IsDir(p, ds) == Resolve(SplitSlash(p, 1, <<>>), <<>>) \in DirParts(ds)

\* the kernel walks the components cs of an absolute path from directory st:
\* every component but the last must name an existing directory; the result
\* is the component list of the file named, or NoEntry
NoEntry == <<<<Slash>>>>
RECURSIVE Walk(_, _, _)
Walk(cs, st, ds) ==
    IF st \notin ds THEN NoEntry
    ELSE IF cs = <<>> THEN st
    ELSE IF Head(cs) = <<>> \/ Head(cs) = <<".">> THEN Walk(Tail(cs), st, ds)
    ELSE IF Head(cs) = <<".", ".">>
    THEN Walk(Tail(cs), IF st = <<>> THEN st ELSE SubSeq(st, 1, Len(st) - 1), ds)
    ELSE IF Len(cs) = 1 THEN Append(st, Head(cs))
    ELSE Walk(Tail(cs), Append(st, Head(cs)), ds)

\* the component list of the file that open(p, "wb") creates or truncates
\* when the directories ds exist; NoEntry when open raises (a missing parent
\* directory, or p names a directory)
NotDirectory(st, dps) == IF st \in dps THEN NoEntry ELSE st
TargetAmong(p, dps) == NotDirectory(Walk(SplitSlash(p, 1, <<>>), <<>>, dps), dps)
OpenTarget(p, ds) == TargetAmong(p, DirParts(ds))

\* the absolute path with the components st
RECURSIVE JoinParts(_)
JoinParts(st) ==
    IF st = <<>> THEN <<>> ELSE <<Slash>> \o Head(st) \o JoinParts(Tail(st))

-----------------------------------------------------------------------------
(* Dates                                                                    *)

IsLeap(y) == (y % 4 = 0 /\ y % 100 # 0) \/ y % 400 = 0

DaysInMonth(y, m) ==
    IF m = 2 THEN (IF IsLeap(y) THEN 29 ELSE 28)
    ELSE IF m \in {4, 6, 9, 11} THEN 30 ELSE 31

\* the calendar day before d = <<y, m, day>>
PrevDay(d) ==
    IF d[3] > 1 THEN <<d[1], d[2], d[3] - 1>>
    ELSE IF d[2] > 1 THEN <<d[1], d[2] - 1, DaysInMonth(d[1], d[2] - 1)>>
    ELSE <<d[1] - 1, 12, 31>>

\* datetime.now() - timedelta(days=n), n >= 0
RECURSIVE DateMinus(_, _)
DateMinus(d, n) == IF n = 0 THEN d ELSE DateMinus(PrevDay(d), n - 1)

\* strftime("%Y-%m-%d")
FormatDate(d) == Pad4(d[1]) \o <<"-">> \o Pad2(d[2]) \o <<"-">> \o Pad2(d[3])

-----------------------------------------------------------------------------
(* Configuration of the process (main and LogDownloaderMCP.__init__)        *)

\* DOWNLOAD_DIR
DownloadDir == <<"/", "d", "l">>
\* urlparse(MCP_URL).hostname
McpHost == <<"g", "w">>
\* the dates the process clock may show
Clocks == {<<2024, 3, 1>>}

-----------------------------------------------------------------------------
(* Inputs: the lines on stdin                                               *)

\* a str holding one lone surrogate, which UTF-8 cannot encode
Surrogate == "\\ud800"
Ids == {<<"1">>, <<Surrogate>>}

DeviceNames == {<<"S">>}
\* device_name_filter: two strs and null
Filters == {<<"S">>, <<"x">>, None}
KindNames == {"client", "backend", "bogus"}
DefaultLogTypes == <<"client", "backend">>
\* one line asks for at most as many kinds of {client, backend} as the default
MaxRecognised == Len(DefaultLogTypes)
\* and for one kind outside {client, backend} besides
MaxTypes == MaxRecognised + 1
\* the lists a line sends: up to MaxRecognised kinds of any name, and two
\* kinds of {client, backend} with a kind outside between them
LogTypeSeqs ==
    UNION {[1..n -> KindNames] : n \in 0..MaxRecognised}
    \cup {<<a, "bogus", b>> : a, b \in {"client", "backend"}}

\* arguments of a download_daily_logs call; log_types is absent or a list;
\* days_ago is sent with an empty list or a list of one unknown kind
DdlArgs ==
    {<<>>, [days_ago |-> 1]}
    \cup {[device_name |-> dn] @@ lt :
            dn \in DeviceNames,
            lt \in {<<>>} \cup {[log_types |-> ts] : ts \in LogTypeSeqs}}
    \cup {[device_name |-> dn, days_ago |-> 1, log_types |-> ts] :
            dn \in DeviceNames, ts \in {<<>>, <<"bogus">>}}

\* the params member of a tools/call request
CallParams ==
    {<<>>, [name |-> "bogus_tool"], [name |-> "list_devices"]}
    \cup {[name |-> "list_devices", arguments |-> [device_name_filter |-> f]] :
            f \in Filters}
    \cup {[name |-> "download_daily_logs", arguments |-> a] : a \in DdlArgs}

\* the params sent with both ids; the others are sent with the first id
SampleParams ==
    {[name |-> "bogus_tool"], [name |-> "list_devices"]}
    \cup {[name |-> "download_daily_logs", arguments |-> [device_name |-> dn]] :
            dn \in DeviceNames}

\* the JSON objects a client may send
Objects ==
    {[id |-> <<"1">>]}
    \cup {[id |-> rid, method |-> m] :
        rid \in Ids, m \in {"initialize", "tools/list", "bogus/method"}}
    \cup {[id |-> rid, method |-> "tools/call"] @@ Opt("params", pr # <<>>, pr) :
            rid \in {<<"1">>}, pr \in CallParams}
    \cup {[id |-> rid, method |-> "tools/call", params |-> pr] :
            rid \in Ids, pr \in SampleParams}

\* a tools/call request with the params pr, of which the members ns are null
NullCall(pr, ns) ==
    [kind |-> "object",
     body |-> [id |-> <<"1">>, method |-> "tools/call"] @@ Opt("params", pr # <<>>, pr),
     null |-> ns]

\* the requests with a null member: params; the arguments of either tool;
\* log_types (both kinds are retrieved)
NullLines ==
    {NullCall(<<>>, {"params"})}
    \cup {NullCall([name |-> n], {"arguments"}) :
            n \in {"list_devices", "download_daily_logs"}}
    \cup {NullCall([name |-> "download_daily_logs",
                    arguments |-> [device_name |-> dn]],
                   {"log_types"}) : dn \in DeviceNames}

\* a line is not JSON, JSON that is not an object, or a JSON object
Lines ==
    {[kind |-> "malformed"], [kind |-> "nonobject"]}
    \cup {[kind |-> "object", body |-> b] : b \in Objects}
    \cup NullLines

\* the line makes handle_mcp_request enter download_daily_logs
IsDdlCall(line) ==
    /\ line.kind = "object"
    /\ Get(line.body, "method", "None") = "tools/call"
    /\ Nulls(line) \cap {"params", "arguments"} = {}
    /\ "params" \in DOMAIN line.body
    /\ Get(line.body.params, "name", "None") = "download_daily_logs"
    /\ "device_name" \in DOMAIN Get(line.body.params, "arguments", <<>>)

\* log_types as download_daily_logs iterates it: tool_params.get("log_types")
\* is None when the member is absent or null (ns are the null members of the
\* line), and None is the default list
EffectiveLogTypes(args, ns) ==
    IF "log_types" \in ns \/ "log_types" \notin DOMAIN args THEN DefaultLogTypes
    ELSE args.log_types

Recognised(ts) ==
    Cardinality({k \in 1..Len(ts) : ts[k] \in {"client", "backend"}})

\* the log kinds a line asks for
KindsOf(line) ==
    IF IsDdlCall(line)
    THEN Recognised(EffectiveLogTypes(line.body.params.arguments, Nulls(line)))
    ELSE 0

-----------------------------------------------------------------------------
(* Inputs: replies of the Gateway and outcomes of local I/O                 *)

\* RemoteFileClient._call_rpc raises, returns None (no "result" member), or
\* returns the result
RpcError == [status |-> "error", msg |-> "HTTP 500"]
RpcNone == [status |-> "none"]
RpcValue(v) == [status |-> "ok", value |-> v]
\* the result v, of which the members ns are null
RpcValueNull(v, ns) == [status |-> "ok", value |-> v, null |-> ns]

Roots == {<<"C", ":", BSlash, "P", BSlash>>}

SelectReplies ==
    {RpcError, RpcNone,
     RpcValue([device_name |-> <<"S">>]),
     RpcValue([device_name |-> <<"S">>, allowed_roots |-> <<>>]),
     RpcValueNull([device_name |-> <<"S">>], {"allowed_roots"})}
    \cup {RpcValue([device_name |-> <<"S">>, allowed_roots |-> <<r>>]) :
            r \in Roots}

ListReplies ==
    {RpcError, RpcNone, RpcValue(<<>>),
     RpcValue(<<[device_name |-> <<"S">>], [device_id |-> <<"7">>]>>)}

CheckReplies ==
    {RpcError, RpcNone, RpcValue(<<>>),
     RpcValue([exists |-> FALSE]), RpcValue([exists |-> TRUE])}

Urls == {<<"h", ":", "/", "/", "0", ".", "0", ".", "0", ".", "0", "/", "f">>}
FileNames == {<<"a", ".", "z", "i", "p">>, <<"b", ".", "l", "o", "g">>}

Descriptor(url, name, size) ==
    [download_url |-> url, file_name |-> name, file_size |-> size,
     compressed |-> TRUE, expires_at |-> "later"]

\* d without key k
Without(d, k) == [key \in DOMAIN d \ {k} |-> d[key]]

SampleDescriptor ==
    Descriptor(CHOOSE u \in Urls : TRUE,
               CHOOSE n \in FileNames : ~EndsWith(n, <<".", "z", "i", "p">>), 5)

\* an error, a descriptor of positive size, a descriptor of size 0, and
\* malformed descriptors that lack one key
LinkReplies ==
    {RpcError}
    \cup {RpcValue(Descriptor(u, n, 5)) : u \in Urls, n \in FileNames}
    \cup {RpcValue([SampleDescriptor EXCEPT !.file_size = 0])}
    \cup {RpcValue(Without(SampleDescriptor, k)) :
            k \in {"download_url", "file_size", "compressed"}}

\* urlopen raises HTTPError, urlopen raises URLError, response.read() raises
\* after the file was opened, or the body is read and written
DownloadOutcomes == {"http_error", "url_error", "read_error", "ok"}

\* _extract_zip: what extractall sets out to leave on the disk before it
\* ends, and whether it ends by raising. It leaves nothing (the archive has no
\* entry, or is not a zip file), the extraction directory alone (an entry
\* that names the directory itself, or a member that cannot be opened), the
\* directory of an entry below it, the file of a member opened but without
\* bytes, or the file of a member with its bytes
ExtractLeaves == {"nothing", "dir", "subdir", "empty_file", "file"}
ExtractOutcomes == [leaves : ExtractLeaves, raises : BOOLEAN]

-----------------------------------------------------------------------------
(* LogDownloaderMCP: pure parts                                             *)

\* _fix_download_url
FixDownloadUrl(url) ==
    IF Contains(url, <<"0", ".", "0", ".", "0", ".", "0">>)
    THEN Replace(url, <<"0", ".", "0", ".", "0", ".", "0">>, mcp_host)
    ELSE url

Zip == <<".", "z", "i", "p">>

\* variant: the backend path of yesterday is a directory, like today's
RemotePathZipAfterOne(base, kind, days_ago, date) ==
    NtJoin(base,
           IF kind = "client"
           THEN <<<<"C","l","i","e","n","t">>, <<"l","o","g","s">>, date>>
           ELSE IF days_ago > 1
           THEN <<<<"B","a","c","k","e","n","d">>, <<"l","o","g">>, date \o Zip>>
           ELSE <<<<"B","a","c","k","e","n","d">>, <<"l","o","g">>, date>>)

\* download_daily_logs: the remote path of one kind
RemotePath(base, kind, days_ago, date) ==
    NtJoin(base,
           IF kind = "client"
           THEN <<<<"C","l","i","e","n","t">>, <<"l","o","g","s">>, date>>
           ELSE IF days_ago >= 1
           THEN <<<<"B","a","c","k","e","n","d">>, <<"l","o","g">>, date \o Zip>>
           ELSE <<<<"B","a","c","k","e","n","d">>, <<"l","o","g">>, date>>)

\* download_daily_logs: device_name.replace("/", "_").replace("\\", "_")
SafeDevice(device_name) ==
    Replace(Replace(device_name, <<Slash>>, <<"_">>), <<BSlash>>, <<"_">>)

\* download_daily_logs: os.path.join(self.download_dir, safe_device, date_str)
LocalDir(device_name, date) ==
    OsJoin(OsJoin(DownloadDir, SafeDevice(device_name)), date)

\* variant: the artifact is saved under a suffixed name
SavePathSuffixed(save_dir, filename) == OsJoin(save_dir, filename \o <<".", "1">>)

\* _download_file_locally: os.path.join(save_dir, filename)
SavePath(save_dir, filename) == OsJoin(save_dir, filename)

\* _extract_zip and download_daily_logs: the directory an archive unpacks to
ExtractDir(save_dir, save_path) == OsJoin(save_dir, SplitextRoot(Basename(save_path)))

IsZipName(p) == EndsWith(Lower(p), Zip)

\* no extraction is attempted unless the download succeeded and the name of
\* the file ends in .zip
ExtractOutcomesAfter(o) ==
    IF pc = "download" /\ o = "ok" /\ IsZipName(link_info.file_name)
    THEN ExtractOutcomes
    ELSE {[leaves |-> "nothing", raises |-> TRUE]}

\* variant: a kind outside {client, backend} is processed like the others
NextKindNoSkip(types, from) == IF from > Len(types) THEN 0 ELSE from

\* position of the first kind at or after `from` that the loop does not skip,
\* 0 when the loop is over
RECURSIVE NextKind(_, _)
NextKind(types, from) ==
    IF from > Len(types) THEN 0
    ELSE IF types[from] \in {"client", "backend"} THEN from
    ELSE NextKind(types, from + 1)

\* variant: an absent path is an error for every kind
AbsentEntryAsFailed(kind, date, p) ==
    [log_type |-> kind, date |-> date, path |-> p, exists |-> FALSE,
     error |-> <<"Path does not exist">>]

\* the entry for a path that check_path reports absent
AbsentEntry(kind, date, p) ==
    IF kind = "backend"
    THEN [log_type |-> kind, date |-> date, path |-> p, exists |-> FALSE,
          skipped |-> TRUE, message |-> <<"Backend log does not exist, skipped">>]
    ELSE [log_type |-> kind, date |-> date, path |-> p, exists |-> FALSE,
          error |-> <<"Path does not exist">>]

\* the entry appended by the handler `except Exception as e` of the loop body
ExceptEntry(kind, date, p, e) ==
    IF kind = "backend"
    THEN [log_type |-> kind, date |-> date, path |-> p,
          skipped |-> TRUE, message |-> <<"Backend log error, skipped: ", e>>]
    ELSE [log_type |-> kind, date |-> date, path |-> p, error |-> <<e>>]

\* variant: an empty backend archive is skipped
EmptyEntryBySkipping(kind, date, p) ==
    IF kind = "backend"
    THEN [log_type |-> kind, date |-> date, path |-> p, exists |-> TRUE,
          skipped |-> TRUE, message |-> <<"Backend log is empty, skipped">>,
          file_size |-> 0]
    ELSE [log_type |-> kind, date |-> date, path |-> p, exists |-> TRUE,
          error |-> <<"Directory exists but has no log files (file_size=0)">>,
          file_size |-> 0]

\* the entry for a descriptor of size 0
EmptyEntry(kind, date, p) ==
    [log_type |-> kind, date |-> date, path |-> p, exists |-> TRUE,
     error |-> <<"Directory exists but has no log files (file_size=0)">>,
     file_size |-> 0]

\* variant: an archive that was not extracted is reported as not saved
LinkEntryNeedsExtraction(kind, date, p, url, info, local_path, extracted_dir) ==
    [log_type |-> kind, date |-> date, path |-> p, exists |-> TRUE,
     download_url |-> url, file_name |-> info.file_name,
     file_size |-> info.file_size, compressed |-> info.compressed,
     expires_at |-> info.expires_at,
     local_path |-> IF IsZipName(info.file_name) /\ extracted_dir = None
                    THEN None ELSE local_path,
     extracted_dir |-> extracted_dir]

\* the entry appended after the download step
LinkEntry(kind, date, p, url, info, local_path, extracted_dir) ==
    [log_type |-> kind, date |-> date, path |-> p, exists |-> TRUE,
     download_url |-> url, file_name |-> info.file_name,
     file_size |-> info.file_size, compressed |-> info.compressed,
     expires_at |-> info.expires_at,
     local_path |-> local_path, extracted_dir |-> extracted_dir]

\* str(KeyError(k))
KeyErrorText(k) == "'" \o k \o "'"

\* the text of the KeyError for the first key among ks that dict d lacks, ""
\* when it has them all
RECURSIVE MissingKey(_, _)
MissingKey(d, ks) ==
    IF ks = <<>> THEN ""
    ELSE IF Head(ks) \notin DOMAIN d THEN KeyErrorText(Head(ks))
    ELSE MissingKey(d, Tail(ks))

\* handle_mcp_request: the two envelopes
ResultResponse(rid, result) == [jsonrpc |-> "2.0", id |-> rid, result |-> result]
\* variants: the failure is reported as a result, or in a bare envelope
ErrorResponseAsResult(rid, msg) ==
    [jsonrpc |-> "2.0", id |-> rid, result |-> [message |-> msg]]
ErrorResponseBare(rid, msg) == [jsonrpc |-> "2.0", id |-> rid]
ErrorResponse(rid, msg) ==
    [jsonrpc |-> "2.0", id |-> rid, error |-> [code |-> -32603, message |-> msg]]

\* run_stdio_server: the envelope of the handler `except Exception as e`
ParseErrorResponse(msg) ==
    [jsonrpc |-> "2.0", id |-> None, error |-> [code |-> -32700, message |-> msg]]

\* handle_mcp_request: the MCP content block around a tool result; the text is
\* kept as the value that json.dumps serialises
ToolContent(tool_result) == [content |-> <<[type |-> "text", text |-> tool_result]>>]
\* the block around the tool result None
ToolContentNone == [content |-> <<[type |-> "text", null |-> {"text"}]>>]

InitializeResult ==
    [protocolVersion |-> "2024-11-05", capabilities |-> [tools |-> <<>>],
     serverInfo |-> [name |-> "remote-log-downloader", version |-> "1.0.0"]]

ToolsListResult == [tools |-> <<"list_devices", "download_daily_logs">>]

\* the members of a device or of a result entry by what they hold: a bool
\* or an int, a str kept as one piece, a list of strs; every other member
\* holds a str
PlainMembers == {"exists", "skipped", "compressed", "file_size"}
AtomMembers == {"log_type", "expires_at"}
ListMembers == {"allowed_roots"}

HasSurrogate(s) == \E n \in 1..Len(s) : s[n] = Surrogate
DictHasSurrogate(d) ==
    \/ Surrogate \in DOMAIN d
    \/ \E f \in DOMAIN d \cap AtomMembers : d[f] = Surrogate
    \/ \E f \in DOMAIN d \cap ListMembers :
          \E n \in 1..Len(d[f]) : HasSurrogate(d[f][n])
    \/ \E f \in DOMAIN d \ (PlainMembers \cup AtomMembers \cup ListMembers) :
          HasSurrogate(d[f])

\* sys.stdout.write(json.dumps(response, ensure_ascii=False)) raises
\* UnicodeEncodeError when a str of the response holds a lone surrogate: the
\* id, the message of an error, or a key or a str of the list a tool returned
Encodable(resp) ==
    /\ ~HasSurrogate(resp.id)
    /\ "error" \in DOMAIN resp => ~HasSurrogate(resp.error.message)
    /\ ("result" \in DOMAIN resp /\ "content" \in DOMAIN resp.result
                                 /\ "text" \in DOMAIN resp.result.content[1]) =>
          \A n \in 1..Len(resp.result.content[1].text) :
              ~DictHasSurrogate(resp.result.content[1].text[n])

\* RemoteFileClient.list_devices: the client-side filter. `f in None` raises
\* TypeError for a device whose device_name is null
FilterDevices(devices, f) ==
    IF \E n \in 1..Len(devices) : Get(devices[n], "device_name", <<>>) = None
    THEN [status |-> "error", msg |-> "TypeError"]
    ELSE [status |-> "ok",
          value |-> SelectSeq(devices,
                              LAMBDA d : Contains(Get(d, "device_name", <<>>), f))]

\* events of the trace: a remote call (or fetch) is issued for the kind at
\* position k, it ends with an outcome, a local file is opened for writing
Call(op, k, arg) == [ev |-> "call", op |-> op, i |-> k, arg |-> arg]
Reply(op, k, out) == [ev |-> "reply", op |-> op, i |-> k, out |-> out]
Open(k, p) == [ev |-> "open", op |-> "open", i |-> k, arg |-> p]
\* _extract_zip returned ret for the archive of kind k
Extract(k, ret) == [ev |-> "extract", op |-> "extract", i |-> k, arg |-> ret]

\* what a reply of select_device amounts to
SelectOutcome(r) ==
    IF r.status = "error" THEN "error"
    ELSE IF r.status = "none" THEN "malformed"
    ELSE IF \/ "allowed_roots" \in Nulls(r)
            \/ "allowed_roots" \notin DOMAIN r.value
            \/ r.value.allowed_roots = <<>>
    THEN "noroots"
    ELSE IF r.value.allowed_roots[1] = None THEN "malformed"
    ELSE "device"

\* what a reply of check_path amounts to
CheckOutcome(r) ==
    IF r.status = "error" THEN "error"
    ELSE IF r.status = "none" THEN "malformed"
    ELSE IF "exists" \in DOMAIN r.value /\ r.value.exists THEN "present"
    ELSE "absent"

DescriptorKeys == {"download_url", "file_name", "file_size", "compressed", "expires_at"}

\* what a reply of get_download_link amounts to
LinkOutcome(r) ==
    IF r.status = "error" THEN "error"
    ELSE IF r.status = "none" THEN "malformed"
    ELSE IF "download_url" \notin DOMAIN r.value THEN "malformed"
    ELSE IF Get(r.value, "file_size", 0) = 0 THEN "empty"
    ELSE IF r.value.download_url = None THEN "malformed"
    ELSE IF ~(DescriptorKeys \subseteq DOMAIN r.value) THEN "malformed"
    ELSE "descriptor"

-----------------------------------------------------------------------------
(* The program                                                              *)

\* the state after LogDownloaderMCP.__init__ for the Gateway host h
InitWith(h) ==
    /\ mcp_host = h
    /\ pc = "read"
    /\ now \in Clocks
    /\ nread = 0
    /\ nwritten = 0
    /\ nkinds = 0
    /\ eof = FALSE
    /\ request = <<>>
    /\ response = <<>>
    /\ wrote = <<>>
    /\ base_path = <<>>
    /\ date_str = <<>>
    /\ log_types = <<>>
    /\ i = 0
    /\ path = <<>>
    /\ link_info = <<>>
    /\ download_url = <<>>
    /\ results = <<>>
    /\ trace = <<>>
    /\ files = <<>>
    /\ dirs = {}

Init == InitWith(McpHost)

\* locals of the request being served
Rid == Get(request.body, "id", None)
ToolParams == Get(request.body.params, "arguments", <<>>)
DeviceName == ToolParams.device_name
DaysAgo == Get(ToolParams, "days_ago", 0)

\* variant: a device without allowed_roots gets a default root
AllowedRootsOrDefault(device) ==
    IF "allowed_roots" \in DOMAIN device THEN device.allowed_roots
    ELSE <<<<"C", ":">>>>

\* download_daily_logs: device.get("allowed_roots", [])
AllowedRoots(device) == Get(device, "allowed_roots", <<>>)

\* variant: the loop goes back to readline without writing the response
RespondWithoutWrite(resp) ==
    /\ pc' = "read"
    /\ response' = resp

\* handle_mcp_request returns resp
Respond(resp) ==
    /\ pc' = "write"
    /\ response' = resp

\* variant: the loop asks for the link of a kind without checking its path
EnterKindWithoutCheck(from, res, cs, base, date) ==
    LET j == NextKind(log_types, from)
        p == RemotePath(base, log_types[j], DaysAgo, date)
    IN  /\ results' = res
        /\ link_info' = <<>>
        /\ download_url' = <<>>
        /\ IF j = 0
           THEN /\ Respond(ResultResponse(Rid, ToolContent(res)))
                /\ i' = 0
                /\ path' = <<>>
                /\ trace' = cs
           ELSE /\ pc' = "get_download_link"
                /\ response' = response
                /\ i' = j
                /\ path' = p
                /\ trace' = Append(cs, Call("get_download_link", j, p))

\* the for loop of download_daily_logs moves to the first kind at or after
\* `from` that it does not skip and trace check_path for it, or ends and
\* handle_mcp_request wraps the result list
EnterKind(from, res, cs, base, date) ==
    LET j == NextKind(log_types, from)
        p == RemotePath(base, log_types[j], DaysAgo, date)
    IN  /\ results' = res
        /\ link_info' = <<>>
        /\ download_url' = <<>>
        /\ IF j = 0
           THEN /\ Respond(ResultResponse(Rid, ToolContent(res)))
                /\ i' = 0
                /\ path' = <<>>
                /\ trace' = cs
           ELSE /\ pc' = "check_path"
                /\ response' = response
                /\ i' = j
                /\ path' = p
                /\ trace' = Append(cs, Call("check_path", j, p))

\* variant: the error of a kind is not caught by the loop body and ends the
\* tool call
FinishOrRaise(entry, cs) ==
    /\ UNCHANGED <<base_path, date_str, log_types>>
    /\ IF "error" \in DOMAIN entry /\ "exists" \notin DOMAIN entry
       THEN /\ Respond(ErrorResponse(Get(request.body, "id", <<"None">>), entry.error))
            /\ trace' = cs
            /\ UNCHANGED <<i, path, link_info, download_url, results>>
       ELSE EnterKind(i + 1, Append(results, entry), cs, base_path, date_str)

\* the loop body appends entry and goes on with the next kind
Finish(entry, cs) ==
    /\ EnterKind(i + 1, Append(results, entry), cs, base_path, date_str)
    /\ UNCHANGED <<base_path, date_str, log_types>>

\* run_stdio_server reads a line, parses it and enters handle_mcp_request
ReadLine(line) ==
    /\ pc = "read"
    /\ nread < MaxLines
    /\ nkinds + KindsOf(line) <= MaxKinds
    /\ nread' = nread + 1
    /\ nkinds' = nkinds + KindsOf(line)
    /\ request' = line
    /\ wrote' = <<>>
    /\ base_path' = <<>>
    /\ date_str' = <<>>
    /\ i' = 0
    /\ path' = <<>>
    /\ link_info' = <<>>
    /\ download_url' = <<>>
    /\ results' = <<>>
    /\ UNCHANGED <<mcp_host, now, nwritten, eof, files, dirs>>
    /\ IF line.kind # "object"
       THEN \* json.loads raises, or request.get raises AttributeError
            /\ pc' = "except"
            /\ response' = <<>>
            /\ log_types' = <<>>
            /\ trace' = <<>>
       ELSE LET body == line.body
                rid == Get(body, "id", None)
                method == Get(body, "method", "None")
                params == Get(body, "params", <<>>)
                tool_name == Get(params, "name", "None")
                tool_params == Get(params, "arguments", <<>>)
                \* params.get and tool_params.get raise AttributeError, and
                \* tool_params["device_name"] TypeError, on None
                no_params == "params" \in Nulls(line)
                no_arguments == "arguments" \in Nulls(line)
            IN  IF method = "tools/call" /\ ~no_params /\ ~no_arguments
                   /\ tool_name = "list_devices"
                THEN /\ pc' = "list_devices"
                     /\ response' = <<>>
                     /\ log_types' = <<>>
                     /\ trace' = <<Call("list_devices", 0, <<>>)>>
                ELSE IF method = "tools/call" /\ ~no_params /\ ~no_arguments
                        /\ tool_name = "download_daily_logs"
                        /\ "device_name" \in DOMAIN tool_params
                THEN /\ pc' = "select_device"
                     /\ response' = <<>>
                     /\ log_types' = EffectiveLogTypes(tool_params, Nulls(line))
                     /\ trace' = <<Call("select_device", 0, tool_params.device_name)>>
                ELSE /\ log_types' = <<>>
                     /\ trace' = <<>>
                     /\ Respond(
                          IF method = "initialize"
                          THEN ResultResponse(rid, InitializeResult)
                          ELSE IF method = "tools/list"
                          THEN ResultResponse(rid, ToolsListResult)
                          ELSE IF method # "tools/call"
                          THEN ErrorResponse(rid, <<"Unknown method: ", method>>)
                          ELSE IF no_params
                          THEN ErrorResponse(rid, <<"AttributeError">>)
                          ELSE IF tool_name = "list_devices"
                          THEN ErrorResponse(rid, <<"AttributeError">>)
                          ELSE IF tool_name = "download_daily_logs"
                          THEN ErrorResponse(rid, IF no_arguments
                                                  THEN <<"TypeError">>
                                                  ELSE <<"'device_name'">>)
                          ELSE ErrorResponse(rid, <<"Unknown tool: ", tool_name>>))

\* variant: end-of-stream is answered like a line that does not parse
ReadEofWritesError ==
    /\ pc = "read"
    /\ pc' = "done"
    /\ eof' = TRUE
    /\ wrote' = Append(wrote, ParseErrorResponse(<<"Parse error: ", "JSONDecodeError">>))
    /\ nwritten' = nwritten + 1
    /\ UNCHANGED <<mcp_host, now, nread, nkinds, request, response,
                   base_path, date_str, log_types, i, path, link_info,
                   download_url, results, trace, files, dirs>>

\* readline returns the empty string: the loop breaks
ReadEof ==
    /\ pc = "read"
    /\ pc' = "done"
    /\ eof' = TRUE
    /\ UNCHANGED <<mcp_host, now, nread, nwritten, nkinds, request, response, wrote,
                   base_path, date_str, log_types, i, path, link_info,
                   download_url, results, trace, files, dirs>>

\* the Gateway answers list_devices; handle_mcp_request wraps the outcome
ListDevicesReply(r) ==
    /\ pc = "list_devices"
    /\ trace' = Append(trace, Reply("list_devices", 0, r.status))
    /\ LET f == Get(ToolParams, "device_name_filter", None)
       IN  Respond(
             IF r.status = "error" THEN ErrorResponse(Rid, <<r.msg>>)
             ELSE IF f = <<>> \/ f = None
             THEN ResultResponse(Rid, IF r.status = "none" THEN ToolContentNone
                                      ELSE ToolContent(r.value))
             ELSE IF r.status = "none" THEN ErrorResponse(Rid, <<"TypeError">>)
             ELSE IF FilterDevices(r.value, f).status = "error"
             THEN ErrorResponse(Rid, <<FilterDevices(r.value, f).msg>>)
             ELSE ResultResponse(Rid, ToolContent(FilterDevices(r.value, f).value)))
    /\ UNCHANGED <<mcp_host, now, nread, nwritten, nkinds, eof, request, wrote, base_path,
                   date_str, log_types, i, path, link_info, download_url,
                   results, files, dirs>>

\* the Gateway answers select_device; download_daily_logs checks the allowed
\* roots, derives base path and date and enters its loop
SelectDeviceReply(r) ==
    /\ pc = "select_device"
    /\ UNCHANGED <<mcp_host, now, nread, nwritten, nkinds, eof, request, wrote, log_types,
                   files, dirs>>
    /\ LET abort == IF r.status = "error" THEN <<r.msg>>
                    ELSE IF r.status = "none" THEN <<"AttributeError">>
                    ELSE IF \/ "allowed_roots" \in Nulls(r)
                            \/ AllowedRoots(r.value) = <<>>
                    THEN <<"Device has no allowed_roots configured">>
                    ELSE IF AllowedRoots(r.value)[1] = None
                    THEN <<"AttributeError">>
                    ELSE <<>>
           tr == Append(trace, Reply("select_device", 0, SelectOutcome(r)))
       IN  IF abort # <<>>
           THEN /\ Respond(ErrorResponse(Rid, abort))
                /\ trace' = tr
                /\ UNCHANGED <<base_path, date_str, i, path, link_info,
                               download_url, results>>
           ELSE LET base == RStrip(AllowedRoots(r.value)[1], NtSeps)
                    date == FormatDate(DateMinus(now, DaysAgo))
                IN  /\ base_path' = base
                    /\ date_str' = date
                    /\ EnterKind(1, <<>>, tr, base, date)

\* the Gateway answers check_path
CheckPathReply(r) ==
    /\ pc = "check_path"
    /\ UNCHANGED <<mcp_host, now, nread, nwritten, nkinds, eof, request, wrote, files, dirs>>
    /\ LET tr == Append(trace, Reply("check_path", i, CheckOutcome(r)))
       IN  IF r.status = "error"
           THEN Finish(ExceptEntry(log_types[i], date_str, path, r.msg), tr)
           ELSE IF r.status = "none"
           THEN Finish(ExceptEntry(log_types[i], date_str, path, "AttributeError"), tr)
           ELSE IF ~Get(r.value, "exists", FALSE)
           THEN Finish(AbsentEntry(log_types[i], date_str, path), tr)
           ELSE /\ pc' = "get_download_link"
                /\ trace' = Append(tr, Call("get_download_link", i, path))
                /\ UNCHANGED <<response, base_path, date_str, log_types, i,
                               path, link_info, download_url, results>>

\* the Gateway answers get_download_link; download_daily_logs checks the size,
\* rewrites the URL and _download_file_locally creates the directory and
\* opens the URL
GetLinkReply(r) ==
    /\ pc = "get_download_link"
    /\ UNCHANGED <<mcp_host, now, nread, nwritten, nkinds, eof, request, wrote, files>>
    /\ LET kind == log_types[i]
           raised == IF r.status = "error" THEN r.msg
                     ELSE IF r.status = "none" THEN "TypeError"
                     ELSE IF "download_url" \notin DOMAIN r.value
                     THEN "'download_url'"
                     ELSE ""
           tr == Append(trace, Reply("get_download_link", i, LinkOutcome(r)))
       IN  IF raised # ""
           THEN /\ Finish(ExceptEntry(kind, date_str, path, raised), tr)
                /\ dirs' = dirs
           ELSE IF Get(r.value, "file_size", 0) = 0
           THEN /\ Finish(EmptyEntry(kind, date_str, path), tr)
                /\ dirs' = dirs
           ELSE IF r.value.download_url = None
           THEN \* `"0.0.0.0" in url` raises in _fix_download_url
                /\ Finish(ExceptEntry(kind, date_str, path, "TypeError"), tr)
                /\ dirs' = dirs
           ELSE IF DeviceName = None
           THEN \* device_name.replace raises
                /\ Finish(ExceptEntry(kind, date_str, path, "AttributeError"), tr)
                /\ dirs' = dirs
           ELSE IF "file_name" \notin DOMAIN r.value
           THEN \* the KeyError of the log line is caught by the inner
                \* handler, the one of results.append by the outer handler
                /\ Finish(ExceptEntry(kind, date_str, path, "'file_name'"), tr)
                /\ dirs' = dirs
           ELSE IF r.value.file_name = None
           THEN \* os.path.join raises TypeError after makedirs; the inner
                \* handler catches it and the entry reports no local file
                /\ dirs' = MakeDirs(LocalDir(DeviceName, date_str), dirs)
                /\ IF MissingKey(r.value, <<"file_size", "compressed",
                                            "expires_at">>) # ""
                   THEN Finish(ExceptEntry(kind, date_str, path,
                                 MissingKey(r.value, <<"file_size", "compressed",
                                                       "expires_at">>)), tr)
                   ELSE Finish(LinkEntry(kind, date_str, path,
                                         FixDownloadUrl(r.value.download_url),
                                         r.value, None, None), tr)
           ELSE LET url == FixDownloadUrl(r.value.download_url)
                    save_dir == LocalDir(DeviceName, date_str)
                IN  /\ pc' = "download"
                    /\ link_info' = r.value
                    /\ download_url' = url
                    /\ dirs' = MakeDirs(save_dir, dirs)
                    /\ trace' = Append(tr, Call("download", i, FixDownloadUrl(url)))
                    /\ UNCHANGED <<response, base_path, date_str, log_types,
                                   i, path, results>>

\* the bytes the download server sends, and a file opened but not written
Body == <<"b">>
\* the member of a downloaded archive: its name and its bytes
Member == <<"m">>
MemberBody == <<"c">>
EmptyFile == <<>>

\* the fetch ends with outcome o (and the extraction, when one is made, with
\* outcome x); download_daily_logs appends the entry
DownloadReply(o, x) ==
    /\ pc = "download"
    /\ UNCHANGED <<mcp_host, now, nread, nwritten, nkinds, eof, request, wrote>>
    /\ LET kind == log_types[i]
           save_dir == LocalDir(DeviceName, date_str)
           save_path == SavePath(save_dir, link_info.file_name)
           extract_dir == ExtractDir(save_dir, save_path)
           target == OpenTarget(save_path, dirs)
           opened == o \in {"read_error", "ok"} /\ target # NoEntry
           written == o = "ok" /\ target # NoEntry
           files1 == IF opened
                     THEN (JoinParts(target) :>
                             (IF written THEN Body ELSE EmptyFile)) @@ files
                     ELSE files
           unzips == written /\ IsZipName(save_path)
           \* extractall creates the extraction directory for the first
           \* entry, unless a file has its name
           extracts == /\ unzips
                       /\ x.leaves # "nothing"
                       /\ extract_dir \notin DOMAIN files1
           dirs1 == IF extracts THEN MakeDirs(extract_dir, dirs) ELSE dirs
           member_path == extract_dir \o <<Slash>> \o Member
           \* the file of the member is opened, unless a directory has its
           \* name
           member == IF extracts /\ x.leaves \in {"empty_file", "file"}
                     THEN OpenTarget(member_path, dirs1)
                     ELSE NoEntry
           files2 == IF member # NoEntry
                     THEN (JoinParts(member) :>
                             (IF x.leaves = "file" THEN MemberBody
                              ELSE EmptyFile)) @@ files1
                     ELSE files1
           \* the directory of an entry is made, unless a file has its name
           subdir == /\ extracts /\ x.leaves = "subdir"
                     /\ member_path \notin DOMAIN files1
           dirs2 == IF subdir THEN MakeDirs(member_path, dirs1) ELSE dirs1
           blocked == \/ x.leaves # "nothing" /\ ~extracts
                      \/ x.leaves \in {"empty_file", "file"} /\ member = NoEntry
                      \/ x.leaves = "subdir" /\ ~subdir
           extract_ret == IF unzips /\ ~x.raises /\ ~blocked
                          THEN extract_dir ELSE None
           local_path == IF written THEN save_path ELSE None
           extracted_dir == IF written /\ IsZipName(save_path)
                               /\ IsDir(extract_dir, dirs2)
                            THEN extract_dir ELSE None
           missing == MissingKey(link_info, <<"file_name", "file_size",
                                              "compressed", "expires_at">>)
           out == IF o \in {"http_error", "url_error"} \/ ~opened THEN "error"
                  ELSE o
           tr == IF opened THEN Append(trace, Open(i, save_path)) ELSE trace
           tx == IF unzips
                 THEN Append(tr, Extract(i, extract_ret)) ELSE tr
           cs == Append(tx, Reply("download", i, out))
       IN  /\ files' = files2
           /\ dirs' = dirs2
           /\ IF missing # ""
              THEN Finish(ExceptEntry(kind, date_str, path, missing), cs)
              ELSE Finish(LinkEntry(kind, date_str, path, download_url,
                                    link_info, local_path, extracted_dir), cs)

\* run_stdio_server writes and flushes the response
WriteResponse ==
    /\ pc = "write"
    /\ IF Encodable(response)
       THEN /\ wrote' = Append(wrote, response)
            /\ nwritten' = nwritten + 1
            /\ pc' = "read"
       ELSE /\ pc' = "except"
            /\ UNCHANGED <<wrote, nwritten>>
    /\ UNCHANGED <<mcp_host, now, nread, nkinds, eof, request, response, base_path, date_str,
                   log_types, i, path, link_info, download_url, results,
                   trace, files, dirs>>

\* variant: the exception ends the loop after the error response
ExceptHandlerExits ==
    /\ pc = "except"
    /\ wrote' = Append(wrote, [jsonrpc |-> "2.0", id |-> <<"None">>,
                               error |-> [code |-> -32700,
                                          message |-> <<"Parse error">>]])
    /\ nwritten' = nwritten + 1
    /\ pc' = "done"
    /\ UNCHANGED <<mcp_host, now, nread, nkinds, eof, request, response, base_path, date_str,
                   log_types, i, path, link_info, download_url, results,
                   trace, files, dirs>>

\* the handler `except Exception as e` of run_stdio_server
ExceptHandler ==
    /\ pc = "except"
    /\ LET msg == IF request.kind = "malformed" THEN "JSONDecodeError"
                  ELSE IF request.kind = "nonobject" THEN "AttributeError"
                  ELSE "UnicodeEncodeError"
       IN  wrote' = Append(wrote, ParseErrorResponse(<<"Parse error: ", msg>>))
    /\ nwritten' = nwritten + 1
    /\ pc' = "read"
    /\ UNCHANGED <<mcp_host, now, nread, nkinds, eof, request, response, base_path, date_str,
                   log_types, i, path, link_info, download_url, results,
                   trace, files, dirs>>

Next ==
    \/ \E line \in Lines : ReadLine(line)
    \/ ReadEof
    \/ \E r \in ListReplies : ListDevicesReply(r)
    \/ \E r \in SelectReplies : SelectDeviceReply(r)
    \/ \E r \in CheckReplies : CheckPathReply(r)
    \/ \E r \in LinkReplies : GetLinkReply(r)
    \/ \E o \in DownloadOutcomes :
          \E x \in ExtractOutcomesAfter(o) : DownloadReply(o, x)
    \/ WriteResponse
    \/ ExceptHandler

Spec == Init /\ [][Next]_vars

\* the remote operations: the four Gateway methods and the fetch
RemoteOps ==
    {"list_devices", "select_device", "check_path", "get_download_link", "download"}

\* every remote call returns, raises or times out (_call_rpc and urlopen pass
\* a timeout): the loop does not wait forever for the call of any kind
CallsReturn ==
    \A op \in RemoteOps : \A k \in 0..MaxTypes : []<>~(pc = op /\ i = k)

\* the loop is one sequential thread: when it can read end-of-stream, write a
\* response or handle an exception, it does; the input is finite, so readline
\* returns end-of-stream once the lines are consumed
FairSpec ==
    /\ Spec
    /\ WF_vars(ReadEof)
    /\ WF_vars(WriteResponse)
    /\ WF_vars(ExceptHandler)
    /\ CallsReturn

-----------------------------------------------------------------------------
(* Vocabulary of the properties                                             *)

\* the states of a result entry
IsSuccess(e) ==
    /\ {"download_url", "file_name", "local_path"} \subseteq DOMAIN e
    /\ e.local_path # None
    /\ DOMAIN e \cap {"error", "skipped"} = {}
IsSkipped(e) ==
    /\ "skipped" \in DOMAIN e
    /\ e.skipped
    /\ DOMAIN e \cap {"error", "local_path"} = {}
IsFailed(e) ==
    /\ "error" \in DOMAIN e
    /\ DOMAIN e \cap {"skipped", "local_path"} = {}
StatesOf(e) ==
    {st \in {"Success", "Skipped", "Failed"} :
        \/ st = "Success" /\ IsSuccess(e)
        \/ st = "Skipped" /\ IsSkipped(e)
        \/ st = "Failed" /\ IsFailed(e)}

\* what happened, during the request being served, for the kind at position k
Replied(op, k, out) == \E n \in 1..Len(trace) : trace[n] = Reply(op, k, out)
Called(op, k) ==
    \E n \in 1..Len(trace) :
        trace[n].ev = "call" /\ trace[n].op = op /\ trace[n].i = k
Opened(k) == \E n \in 1..Len(trace) : trace[n].ev = "open" /\ trace[n].i = k

\* the requested kinds that are client or backend, and where the entry of
\* the kind at position k belongs in the result sequence
Restricted(ts) == SelectSeq(ts, LAMBDA t : t \in {"client", "backend"})
EntryIndex(k) == Len(Restricted(SubSeq(log_types, 1, k)))
HasEntry(k) == EntryIndex(k) <= Len(results)
EntryOf(k) == results[EntryIndex(k)]

\* the loop waits for a line, or has ended
Idle == pc \in {"read", "done"}
\* download_daily_logs has returned or raised
Returned == pc \in {"write", "except", "read", "done"}

-----------------------------------------------------------------------------
(* Properties                                                               *)

\* C1: for every line read, exactly one response is written; for a line that
\* parses as a request object the response carries the id of the request,
\* for a line that does not parse it carries a null id.
C1_OneResponseWithRequestId ==
    (Idle /\ nread > 0) =>
        /\ nwritten = nread
        /\ Len(wrote) = 1
        /\ request.kind = "object" => wrote[1].id = Get(request.body, "id", None)
        /\ request.kind = "malformed" => wrote[1].id = None

\* C2: when check_path reports the path absent, a backend kind is Skipped
\* (with a message), a client kind is Failed, and neither get_download_link
\* nor a download nor a local write is made for that kind.
C2_AbsentPath ==
    \A k \in 1..Len(log_types) :
        Replied("check_path", k, "absent") =>
            /\ HasEntry(k)
            /\ EntryOf(k).log_type = log_types[k]
            /\ log_types[k] = "backend" =>
                  IsSkipped(EntryOf(k)) /\ "message" \in DOMAIN EntryOf(k)
            /\ log_types[k] = "client" => IsFailed(EntryOf(k))
            /\ ~Called("get_download_link", k)
            /\ ~Called("download", k)
            /\ ~Opened(k)

C2_Witness ==
    /\ Idle /\ nwritten = nread
    /\ \E k1, k2 \in 1..Len(log_types) :
          /\ log_types[k1] = "backend" /\ Replied("check_path", k1, "absent")
          /\ log_types[k2] = "client" /\ Replied("check_path", k2, "absent")
          /\ IsSkipped(EntryOf(k1)) /\ IsFailed(EntryOf(k2))

\* an error of get_download_link, and an error of the download
LinkFailed(k) == Replied("get_download_link", k, "error")
FetchFailed(k) ==
    Replied("download", k, "error") \/ Replied("download", k, "read_error")

\* C3: any error during link resolution or during the download yields
\* Skipped for a backend kind and Failed for a client kind.
C3_ErrorsSkipOrFail ==
    \A k \in 1..Len(log_types) :
        (LinkFailed(k) \/ FetchFailed(k)) =>
            /\ HasEntry(k)
            /\ log_types[k] = "backend" => IsSkipped(EntryOf(k))
            /\ log_types[k] = "client" => IsFailed(EntryOf(k))

\* C4: every entry of the result sequence is in exactly one of the states
\* Success, Skipped and Failed.
C4_ThreeStates ==
    \A n \in 1..Len(results) : Cardinality(StatesOf(results[n])) = 1

\* C5: a descriptor of file_size 0 yields Failed for client and backend
\* alike, and no download is made and no local file is written for the kind.
C5_EmptyArtifact ==
    \A k \in 1..Len(log_types) :
        Replied("get_download_link", k, "empty") =>
            /\ HasEntry(k)
            /\ EntryOf(k).log_type = log_types[k]
            /\ IsFailed(EntryOf(k))
            /\ ~Called("download", k)
            /\ ~Opened(k)

C5_Witness ==
    /\ Idle /\ nwritten = nread
    /\ \E k1, k2 \in 1..Len(log_types) :
          /\ log_types[k1] = "backend" /\ log_types[k2] = "client"
          /\ Replied("get_download_link", k1, "empty")
          /\ Replied("get_download_link", k2, "empty")
          /\ IsFailed(EntryOf(k1)) /\ IsFailed(EntryOf(k2))

\* the kinds of log_types that are client or backend
RecognisedKinds == {k \in 1..Len(log_types) : log_types[k] \in {"client", "backend"}}

\* the calls of the trace that have not ended
InFlight ==
    Cardinality({n \in 1..Len(trace) : trace[n].ev = "call"})
    - Cardinality({n \in 1..Len(trace) : trace[n].ev = "reply"})

\* C6: once select_device has returned a device with allowed roots,
\* download_daily_logs does not raise whatever check_path, get_download_link
\* and the download do: it returns a result sequence, and every kind after a
\* failed one is still processed and reported.
C6_NeverRaises ==
    Replied("select_device", 0, "device") =>
        /\ ~Returned =>
              /\ i \in RecognisedKinds
              /\ \A k \in RecognisedKinds : k < i => HasEntry(k)
              /\ Len(results) = EntryIndex(i - 1)
        /\ Returned =>
              /\ response = ResultResponse(Rid, ToolContent(results))
              /\ Len(results) = Cardinality(RecognisedKinds)
              /\ \A k \in RecognisedKinds :
                    /\ Called("check_path", k)
                    /\ EntryOf(k).log_type = log_types[k]

C6_Witness ==
    /\ Idle /\ nwritten = nread
    /\ Replied("select_device", 0, "device")
    /\ Len(log_types) = 2
    /\ log_types[1] = "client" /\ Replied("check_path", 1, "error")
    /\ IsFailed(results[1])
    /\ Called("check_path", 2) /\ IsSuccess(results[2])
    /\ wrote = <<ResultResponse(Rid, ToolContent(results))>>

\* C7: when select_device fails or returns a device with an empty or missing
\* allowed_roots list, the tool call ends with an error envelope and no
\* result, and no check_path, get_download_link or download is made and no
\* local file is written.
C7_PreconditionAborts ==
    (Replied("select_device", 0, "error") \/ Replied("select_device", 0, "noroots")) =>
        /\ Returned
        /\ "error" \in DOMAIN response
        /\ "result" \notin DOMAIN response
        /\ response.id = Rid
        /\ \A n \in 1..Len(wrote) : "result" \notin DOMAIN wrote[n]
        /\ \A n \in 1..Len(trace) : trace[n].op = "select_device"
        /\ results = <<>>

C7_Witness ==
    /\ Idle /\ nwritten = nread
    /\ Replied("select_device", 0, "noroots")
    /\ Len(log_types) = 2
    /\ Len(trace) = 2
    /\ Len(wrote) = 1 /\ "error" \in DOMAIN wrote[1]

\* C8: a line that is not JSON is answered by one error response of code
\* -32700 with a null id, and the loop goes on: it ends at end-of-stream
\* only, and every line read before is answered.
C8_ParseErrorKeepsLoop ==
    /\ pc = "done" => eof
    /\ Idle => nwritten = nread
    /\ (Idle /\ nread > 0 /\ request.kind = "malformed") =>
          /\ Len(wrote) = 1
          /\ wrote[1].id = None
          /\ DOMAIN wrote[1] = {"jsonrpc", "id", "error"}
          /\ wrote[1].error.code = -32700

C8_Witness ==
    /\ pc = "read" /\ ~eof
    /\ nread = 1 /\ nwritten = 1
    /\ request.kind = "malformed"
    /\ wrote = <<ParseErrorResponse(<<"Parse error: ", "JSONDecodeError">>)>>
    /\ ENABLED ReadLine([kind |-> "object",
                         body |-> [id |-> <<"1">>, method |-> "initialize"]])

\* C9: the response to a line is written, with all calls and downloads of
\* its request ended, before the next line is read: at most one request is
\* in flight, and the k-th response written answers the k-th line.
C9_RunToCompletion ==
    /\ nread - nwritten \in {0, 1}
    /\ Idle <=> nwritten = nread
    /\ Idle \/ pc \in {"write", "except"} => InFlight = 0
    /\ pc \in {"list_devices", "select_device", "check_path",
               "get_download_link", "download"} => InFlight = 1
    /\ (Idle /\ nread > 0) => Len(wrote) = 1
    /\ (Idle /\ nread > 0 /\ request.kind = "object" /\ Encodable(response)) =>
          wrote = <<response>> /\ response.id = Rid

C9_Witness ==
    /\ pc = "download"
    /\ nread = 2 /\ nwritten = 1
    /\ InFlight = 1
    /\ Len(results) = 1

\* C10: the result sequence is the requested sequence of kinds restricted to
\* {client, backend}, in the order of the request; a kind outside
\* {client, backend} gets no entry and no Gateway call.
C10_RestrictedOrder ==
    Replied("select_device", 0, "device") =>
        /\ \A n \in 1..Len(results) :
              /\ n <= Len(Restricted(log_types))
              /\ results[n].log_type = Restricted(log_types)[n]
        /\ Returned => Len(results) = Len(Restricted(log_types))
        /\ \A n \in 1..Len(trace) :
              trace[n].op # "select_device" => trace[n].i \in RecognisedKinds

C10_Witness ==
    /\ Idle /\ nwritten = nread
    /\ log_types = <<"backend", "bogus", "client">>
    /\ Len(results) = 2
    /\ results[1].log_type = "backend" /\ results[2].log_type = "client"
    /\ Called("check_path", 1) /\ Called("check_path", 3)
    /\ ~Called("check_path", 2)

\* the entries of the result sequence, and the check_path calls, for a kind
EntriesOf(kind) == {n \in 1..Len(results) : results[n].log_type = kind}
ChecksOf(kind) ==
    {n \in 1..Len(trace) :
        /\ trace[n].ev = "call" /\ trace[n].op = "check_path"
        /\ log_types[trace[n].i] = kind}

\* C11: a kind that appears more than once in log_types is retrieved at most
\* once and has at most one entry in the result sequence.
C11_DuplicatesIgnored ==
    \A kind \in {"client", "backend"} :
        /\ Cardinality(EntriesOf(kind)) <= 1
        /\ Cardinality(ChecksOf(kind)) <= 1

-----------------------------------------------------------------------------
(* One download_daily_logs request for one kind, against a Gateway that     *)
(* answers with more roots, URLs and file names                             *)

\* requests read in this specification
MaxWideLines == 1

WideDeviceNames == {<<"S">>, <<"a", "/", "b">>}
WideDaysAgo == {0, 1, 2}
\* C:\P\ and C:\P, the drive root C:\ and the root \ of the current drive
WideRoots ==
    {<<"C", ":", BSlash, "P", BSlash>>, <<"C", ":", BSlash, "P">>,
     <<"C", ":", BSlash>>, <<BSlash>>}
\* a URL of the listening address, with and without a port, and a URL of a
\* named host
WideUrls ==
    {<<"h", ":", "/", "/", "0", ".", "0", ".", "0", ".", "0", "/", "f">>,
     <<"h", ":", "/", "/", "0", ".", "0", ".", "0", ".", "0", ":", "8", "/", "f">>,
     <<"h", ":", "/", "/", "x", "/", "f">>,
     <<"h", ":", "/", "/", "x", "/", "0", ".", "0", ".", "0", ".", "0">>}
\* a plain name, an absolute path, a name that climbs out of the directory
\* and a name in a subdirectory
WideFileNames ==
    {<<"b", ".", "l", "o", "g">>, <<Slash, "e">>, <<".", ".", Slash, "e">>,
     <<"x", Slash, "y">>}

WideLines ==
    {[kind |-> "object",
      body |-> [id |-> <<"1">>, method |-> "tools/call",
                params |-> [name |-> "download_daily_logs",
                            arguments |-> [device_name |-> dn, log_types |-> <<k>>]
                                          @@ Opt("days_ago", hasda, da)]]] :
        dn \in WideDeviceNames, k \in {"client", "backend"},
        hasda \in BOOLEAN, da \in WideDaysAgo}

WideSelectReplies ==
    {RpcValue([device_name |-> <<"S">>, allowed_roots |-> <<r>>]) : r \in WideRoots}
WideCheckReplies == {RpcValue([exists |-> FALSE]), RpcValue([exists |-> TRUE])}
WideLinkReplies ==
    {RpcValue(Descriptor(u, n, 5)) : u \in WideUrls, n \in WideFileNames}

\* the hosts MCP_URL may name, one of them with 0.0.0.0 in its own text
WideHosts == {McpHost, <<"1", "0", ".", "0", ".", "0", ".", "0">>}

InitWide == \E h \in WideHosts : InitWith(h)

NextWide ==
    \/ \E line \in WideLines : nread < MaxWideLines /\ ReadLine(line)
    \/ ReadEof
    \/ \E r \in WideSelectReplies : SelectDeviceReply(r)
    \/ \E r \in WideCheckReplies : CheckPathReply(r)
    \/ \E r \in WideLinkReplies : GetLinkReply(r)
    \/ \E o \in DownloadOutcomes :
          \E x \in ExtractOutcomesAfter(o) : DownloadReply(o, x)
    \/ WriteResponse

SpecWide == InitWide /\ [][NextWide]_vars

\* {downloadRoot}/{sanitizedDeviceName}/{date}
ArtifactDir ==
    DownloadDir \o <<Slash>> \o SafeDevice(DeviceName) \o <<Slash>>
        \o FormatDate(DateMinus(now, DaysAgo))

\* path p, resolved, lies below directory dir
PartsOf(p) == Resolve(SplitSlash(p, 1, <<>>), <<>>)
Below(pp, dd) == Len(pp) > Len(dd) /\ SubSeq(pp, 1, Len(dd)) = dd
Inside(p, dir) == Below(PartsOf(p), PartsOf(dir))

\* C12: every file that download_daily_logs creates or overwrites lies inside
\* {downloadRoot}/{sanitizedDeviceName}/{date}/, whatever the device name and
\* the file_name of the Gateway are.
C12_WritesInsideArtifactDir ==
    \A n \in 1..Len(trace) :
        trace[n].ev = "open" => Inside(trace[n].arg, ArtifactDir)

\* the path of the artifact called name for the device and date of the
\* request being served, and the paths of all artifacts that can be asked for
OpenedAt(k, p) ==
    \E n \in 1..Len(trace) :
        trace[n].ev = "open" /\ trace[n].i = k /\ trace[n].arg = p
ArtifactPath(name) == ArtifactDir \o <<Slash>> \o name
ArtifactDirs ==
    {DownloadDir \o <<Slash>> \o SafeDevice(dn) \o <<Slash>>
        \o FormatDate(DateMinus(clock, da)) :
        clock \in Clocks, dn \in DeviceNames, da \in 0..1}
ArtifactPaths == {d \o <<Slash>> \o n : d \in ArtifactDirs, n \in FileNames}
\* the files an archive unpacks to, in the directory named after the archive
UnpackedPaths ==
    {ExtractDir(d, d \o <<Slash>> \o n) \o <<Slash>> \o Member :
        d \in ArtifactDirs, n \in {f \in FileNames : IsZipName(f)}}

\* C13: a run for the same device, date and kind, with the same file name,
\* saves the artifact at the same path as the run before and overwrites it:
\* the path depends on device, date and file name only, the file holds the
\* body of the download that opened it last, and no other file appears but
\* what an archive unpacks to, which is at one path per archive as well.
C13_RerunOverwrites ==
    /\ \A k \in 1..Len(log_types) :
          (Replied("download", k, "ok") /\ HasEntry(k) /\ IsSuccess(EntryOf(k))) =>
              /\ EntryOf(k).local_path = ArtifactPath(EntryOf(k).file_name)
              /\ EntryOf(k).local_path \in DOMAIN files
              /\ (\A k2 \in (k + 1)..Len(log_types) :
                      ~OpenedAt(k2, EntryOf(k).local_path))
                    => files[EntryOf(k).local_path] = Body
    /\ DOMAIN files \subseteq ArtifactPaths \cup UnpackedPaths
    /\ \A p \in DOMAIN files \cap ArtifactPaths : files[p] \in {Body, EmptyFile}
    /\ \A p \in DOMAIN files \cap UnpackedPaths :
          files[p] \in {MemberBody, EmptyFile}

\* the kind client is retrieved twice for the same device and date, both
\* downloads succeed with the same file name, and one file is on disk
C13_Witness ==
    /\ Idle /\ nwritten = nread
    /\ log_types = <<"client", "client">>
    /\ Replied("download", 1, "ok") /\ Replied("download", 2, "ok")
    /\ IsSuccess(results[1]) /\ IsSuccess(results[2])
    /\ results[1].file_name = results[2].file_name
    /\ results[1].local_path = results[2].local_path
    /\ DOMAIN files = {results[1].local_path}

\* a URL scheme://host[:port]/rest cut around its host
ZeroHost == <<"0", ".", "0", ".", "0", ".", "0">>
HostStart(url) == Find(url, <<Slash, Slash>>, 1) + 2
RECURSIVE HostEnd(_, _)
HostEnd(url, k) ==
    IF k > Len(url) \/ url[k] \in {":", Slash} THEN k
    ELSE HostEnd(url, k + 1)
HostOf(url) == SubSeq(url, HostStart(url), HostEnd(url, HostStart(url)) - 1)
AroundHost(url) ==
    <<SubSeq(url, 1, HostStart(url) - 1),
      SubSeq(url, HostEnd(url, HostStart(url)), Len(url))>>

\* the URL of the fetch of kind k
FetchedUrls(k) ==
    {trace[n].arg : n \in {m \in 1..Len(trace) :
        trace[m].ev = "call" /\ trace[m].op = "download" /\ trace[m].i = k}}

\* C14: no artifact is fetched from a URL whose host is 0.0.0.0 or that still
\* contains 0.0.0.0; a URL the Gateway returned with the host 0.0.0.0 is
\* fetched with the host of the configured Gateway endpoint and is otherwise
\* the same; a URL without 0.0.0.0 is fetched as it was returned.
C14_ZeroHostRewritten ==
    /\ \A n \in 1..Len(trace) :
          (trace[n].ev = "call" /\ trace[n].op = "download") =>
              /\ HostOf(trace[n].arg) # ZeroHost
              /\ ~Contains(trace[n].arg, ZeroHost)
    /\ pc = "download" =>
          \A u \in FetchedUrls(i) :
              /\ HostOf(link_info.download_url) = ZeroHost =>
                    /\ HostOf(u) = mcp_host
                    /\ AroundHost(u) = AroundHost(link_info.download_url)
              /\ ~Contains(link_info.download_url, ZeroHost) =>
                    u = link_info.download_url
              /\ download_url = u

\* a URL with the host 0.0.0.0 and a port is being fetched from the
\* configured host, same port
C14_Witness ==
    /\ pc = "download"
    /\ HostOf(link_info.download_url) = ZeroHost
    /\ Contains(link_info.download_url, <<":", "8">>)
    /\ \E u \in FetchedUrls(i) :
          HostOf(u) = mcp_host /\ Contains(u, mcp_host \o <<":", "8", Slash>>)

\* a URL without 0.0.0.0 is being fetched unchanged
C14_WitnessPlain ==
    /\ pc = "download"
    /\ ~Contains(link_info.download_url, ZeroHost)
    /\ link_info.download_url \in FetchedUrls(i)

\* the remote paths asked of check_path for kind k
CheckedPaths(k) ==
    {trace[n].arg : n \in {m \in 1..Len(trace) :
        trace[m].ev = "call" /\ trace[m].op = "check_path" /\ trace[m].i = k}}

\* C15: the backend path ends with .zip exactly when the day offset is at
\* least 1, and the client path never ends with .zip.
C15_ZipSuffix ==
    \A k \in 1..Len(log_types) : \A p \in CheckedPaths(k) :
        /\ log_types[k] = "client" => ~EndsWith(p, Zip)
        /\ log_types[k] = "backend" => (EndsWith(p, Zip) <=> DaysAgo >= 1)

\* the backend path of yesterday is being checked, and ends with .zip
C15_Witness ==
    /\ pc = "check_path" /\ log_types[i] = "backend" /\ DaysAgo = 1
    /\ EndsWith(path, Zip) /\ path \in CheckedPaths(i)

\* the paths of today's backend logs and of client logs two days old are
\* being checked, and do not end with .zip
C15_WitnessToday ==
    /\ pc = "check_path" /\ log_types[i] = "backend" /\ DaysAgo = 0
    /\ ~EndsWith(path, Zip) /\ path \in CheckedPaths(i)
C15_WitnessClient ==
    /\ pc = "check_path" /\ log_types[i] = "client" /\ DaysAgo = 2
    /\ ~EndsWith(path, Zip) /\ path \in CheckedPaths(i)

\* base\Client\logs\{date} and base\Backend\log\{date}[.zip]
Components(kind) ==
    IF kind = "client"
    THEN <<"C","l","i","e","n","t", BSlash, "l","o","g","s", BSlash>>
    ELSE <<"B","a","c","k","e","n","d", BSlash, "l","o","g", BSlash>>
Backslashed(base, kind, date) ==
    base \o <<BSlash>> \o Components(kind) \o date
        \o (IF kind = "backend" /\ DaysAgo >= 1 THEN Zip ELSE <<>>)

\* C16: the remote path is the base (the first allowed root without its
\* trailing separators), a backslash, and the backslash-separated components
\* of the kind, for every base.
C16_BackslashAfterBase ==
    pc = "check_path" =>
        /\ base_path = RStrip(base_path, {Slash, BSlash})
        /\ path = Backslashed(base_path, log_types[i], date_str)
        /\ path \in CheckedPaths(i)

\* the line being served is a request object
IsObject == nread > 0 /\ request.kind = "object"
Method == Get(request.body, "method", "None")
Params == Get(request.body, "params", <<>>)
\* its method is not known, or it calls a tool that is not known
UnknownMethod ==
    IsObject /\ Method \notin {"initialize", "tools/list", "tools/call"}
UnknownTool ==
    /\ IsObject /\ Method = "tools/call" /\ "params" \notin Nulls(request)
    /\ Get(Params, "name", "None") \notin {"list_devices", "download_daily_logs"}
\* the standard error envelope, carrying the id of the request
IsErrorEnvelope(resp) ==
    /\ "error" \in DOMAIN resp
    /\ "result" \notin DOMAIN resp
    /\ resp.error.code = -32603
    /\ resp.id = Rid

\* C17: a request with an unknown method, or a tools/call of an unknown tool,
\* is answered by an error envelope without result that carries the id of the
\* request; no Gateway call is made and no local file is opened for it.
C17_UnknownMethodOrTool ==
    (UnknownMethod \/ UnknownTool) =>
        /\ Returned
        /\ IsErrorEnvelope(response)
        /\ \A n \in 1..Len(wrote) :
              "error" \in DOMAIN wrote[n] /\ "result" \notin DOMAIN wrote[n]
        /\ (Encodable(response) /\ Idle) => wrote = <<response>>
        /\ trace = <<>>
        /\ results = <<>>

\* the error envelope of an unknown tool has been written; a file of an
\* earlier request is still the only one
C17_Witness ==
    /\ UnknownTool /\ Idle /\ nread = 2
    /\ wrote = <<response>> /\ IsErrorEnvelope(response)
    /\ Cardinality(DOMAIN files) = 1

\* the error envelope of an unknown method has been written
C17_WitnessMethod ==
    /\ UnknownMethod /\ Idle
    /\ wrote = <<response>> /\ IsErrorEnvelope(response)

\* a download_daily_logs call without device_name: its arguments lack the
\* member, or are null
MissingDeviceName ==
    /\ IsObject /\ Method = "tools/call" /\ "params" \notin Nulls(request)
    /\ Get(Params, "name", "None") = "download_daily_logs"
    /\ "device_name" \notin DOMAIN Get(Params, "arguments", <<>>)

\* C18: a download_daily_logs call without device_name is answered by an
\* error envelope, and no select_device, check_path or get_download_link call
\* (nor any other) is made for it.
C18_MissingDeviceName ==
    MissingDeviceName =>
        /\ Returned
        /\ IsErrorEnvelope(response)
        /\ response.error.message =
              IF "arguments" \in Nulls(request) THEN <<"TypeError">>
              ELSE <<"'device_name'">>
        /\ \A n \in 1..Len(wrote) : "error" \in DOMAIN wrote[n]
        /\ trace = <<>>
        /\ results = <<>>

\* a call with days_ago but no device_name has been answered
C18_Witness ==
    /\ MissingDeviceName /\ Idle
    /\ "days_ago" \in DOMAIN Get(Params, "arguments", <<>>)
    /\ wrote = <<response>> /\ IsErrorEnvelope(response)

\* C19: when the Gateway gave a complete descriptor and the download
\* succeeded, the entry of the kind is a Success entry whose local_path is the
\* file that was opened and written, whether or not an archive was extracted
\* (extracted_dir may be null); the kinds after it get their entries and the
\* call ends with a result.
C19_ExtractionFailureNotFatal ==
    \A k \in 1..Len(log_types) :
        (Replied("get_download_link", k, "descriptor")
            /\ Replied("download", k, "ok")) =>
            /\ HasEntry(k)
            /\ IsSuccess(EntryOf(k))
            /\ OpenedAt(k, EntryOf(k).local_path)
            /\ EntryOf(k).local_path \in DOMAIN files
            /\ Returned =>
                  /\ Len(results) = Len(Restricted(log_types))
                  /\ "result" \in DOMAIN response

\* an archive was downloaded for the first kind and its extraction failed
\* (no directory was created and extracted_dir is null): the entry is a
\* Success entry with the archive's path, and the second kind has its entry
C19_Witness ==
    /\ Idle /\ nwritten = nread
    /\ Len(log_types) = 2 /\ Len(results) = 2
    /\ Replied("download", 1, "ok")
    /\ IsSuccess(results[1])
    /\ IsZipName(results[1].local_path)
    /\ results[1].extracted_dir = None
    /\ ~IsDir(ExtractDir(LocalDir(DeviceName, results[1].date),
                          results[1].local_path), dirs)
    /\ Called("check_path", 2)

\* C20: the loop eventually exits, and when it has exited end-of-stream was
\* read and every line read before it has its response; the step that reads
\* end-of-stream writes nothing.
C20_EofTerminates ==
    /\ <>(pc = "done")
    /\ [](pc = "done" => (eof /\ nwritten = nread))
    /\ [][eof' # eof => (wrote' = wrote /\ nwritten' = nwritten /\ pc' = "done")]_vars

\* the loop has exited after two lines and two responses
C20_Witness ==
    /\ pc = "done" /\ eof
    /\ nread = 2 /\ nwritten = 2
    /\ Len(wrote) = 1

\* event e may directly follow event d in the trace of one invocation
MayFollow(d, e) ==
    IF e.ev = "reply"
    THEN \/ d.ev = "call" /\ d.op = e.op /\ d.i = e.i
         \/ e.op = "download" /\ d.ev \in {"open", "extract"} /\ d.i = e.i
    ELSE IF e.ev = "open"
    THEN d.ev = "call" /\ d.op = "download" /\ d.i = e.i
    ELSE IF e.ev = "extract"
    THEN d.ev = "open" /\ d.i = e.i
    ELSE IF e.op = "check_path"
    THEN /\ d.ev = "reply" /\ d.i < e.i
         /\ d.op = "select_device" => d.out = "device"
         /\ d.op = "check_path" => d.out # "present"
         /\ d.op = "get_download_link" => d.out \in {"error", "malformed", "empty"}
    ELSE IF e.op = "get_download_link"
    THEN d = Reply("check_path", e.i, "present")
    ELSE IF e.op = "download"
    THEN /\ d.ev = "reply" /\ d.op = "get_download_link" /\ d.i = e.i
         /\ d.out \in {"descriptor", "malformed"}
    ELSE FALSE

\* C21: in one download_daily_logs invocation select_device is the first call
\* and is made once; for each kind check_path comes before get_download_link
\* and that before the fetch; get_download_link follows a check_path reply
\* saying the path is present, the fetch follows a descriptor with a
\* download_url and a non-zero size; a call is answered before the next one
\* is made, and the calls of a kind come before those of the kinds after it.
C21_CallOrder ==
    (trace # <<>> /\ trace[1].op = "select_device") =>
        /\ trace[1].ev = "call"
        /\ \A n \in 2..Len(trace) : MayFollow(trace[n - 1], trace[n])
        /\ pc \in RemoteOps =>
              /\ trace[Len(trace)].ev = "call"
              /\ trace[Len(trace)].op = pc
              /\ trace[Len(trace)].i = i
        /\ pc \notin RemoteOps => trace[Len(trace)].ev = "reply"
        /\ pc = "download" =>
              /\ "download_url" \in DOMAIN link_info
              /\ Get(link_info, "file_size", 0) # 0

\* two kinds, each checked, linked and fetched, in the order of the request
C21_Witness ==
    /\ Idle /\ nwritten = nread
    /\ Len(log_types) = 2
    /\ Len(trace) = 16
    /\ Replied("download", 1, "ok") /\ Replied("download", 2, "ok")
    /\ trace[3] = Call("check_path", 1, trace[3].arg)
    /\ trace[10] = Call("check_path", 2, trace[10].arg)

\* the step answers the fetch in flight with a failure
FetchFails ==
    /\ pc = "download"
    /\ \E n \in (Len(trace) + 1)..Len(trace') :
          /\ trace'[n].ev = "reply" /\ trace'[n].op = "download"
          /\ trace'[n].out # "ok"

\* C22: a download attempt that fails creates no file and leaves every file
\* on disk, an artifact saved earlier at the same path included, as it was.
C22_FailedDownloadKeepsFiles == [][FetchFails => files' = files]_vars


\* _extract_zip returned ret for the archive of kind k in this invocation
Extracted(k, ret) == \E n \in 1..Len(trace) : trace[n] = Extract(k, ret)

\* C23: an entry's extracted_dir is non-null only if the archive downloaded
\* for the kind in this invocation was extracted successfully into that
\* directory; when the extraction fails extracted_dir is null, whatever
\* directories earlier invocations left behind.
C23_ExtractedDirOnlyIfExtracted ==
    \A k \in 1..Len(log_types) :
        (/\ Replied("download", k, "ok")
         /\ HasEntry(k)
         /\ "extracted_dir" \in DOMAIN EntryOf(k)
         /\ EntryOf(k).extracted_dir # None) =>
            Extracted(k, EntryOf(k).extracted_dir)


\* C24: the URL fetched for a kind is the download_url reported in the entry
\* of that kind, for every URL the Gateway returns and every configured host:
\* rewriting the URL a second time changes nothing.
C24_FetchedIsReported ==
    \A k \in 1..Len(log_types) :
        (/\ Replied("get_download_link", k, "descriptor")
         /\ Replied("download", k, "ok")
         /\ HasEntry(k)
         /\ "download_url" \in DOMAIN EntryOf(k)) =>
            FetchedUrls(k) = {EntryOf(k).download_url}

====
